---- MODULE Spec2Model ----
(***************************************************************************)
(* Model of advancedworkflow/controller.py: the ticket workflow operations *)
(* (get_ticket_changes / apply_action_side_effects of every operation) and *)
(* the request pass of the host that drives them.                          *)
(*                                                                         *)
(* Text is a sequence of tokens.  Text that the code parses (the xref id,  *)
(* the triage table, the triage field value) is one token per character;   *)
(* text that is only concatenated or substituted (templates, comments,     *)
(* names) may use longer tokens.  "%s" is the conversion token of a        *)
(* template.                                                               *)
(***************************************************************************)
EXTENDS Integers, Sequences, FiniteSets, TLC

\* ------------------------------------------------------------------ bounds
MaxTicket == 2
MaxIdLen == 2
MaxClauses == 2
MaxHistory == 2

\* ------------------------------------------------------------ text helpers
None == <<"<None>">>

Range(s) == {s[i] : i \in 1..Len(s)}

SeqsUpTo(S, n) == UNION {[1..k -> S] : k \in 0..n}

RECURSIVE lstrip(_, _)
lstrip(s, chars) ==
    IF s # <<>> /\ Head(s) \in chars THEN lstrip(Tail(s), chars) ELSE s

RECURSIVE rstrip(_, _)
rstrip(s, chars) ==
    IF s # <<>> /\ s[Len(s)] \in chars
    THEN rstrip(SubSeq(s, 1, Len(s) - 1), chars)
    ELSE s

\* str.strip(chars): leading and trailing characters of chars removed
strip(s, chars) == rstrip(lstrip(s, chars), chars)

Whitespace == {" "}

Digits == {"0", "1", "2", "3", "4", "5", "6", "7", "8", "9"}

DigitVal(c) ==
    CASE c = "0" -> 0 [] c = "1" -> 1 [] c = "2" -> 2 [] c = "3" -> 3
      [] c = "4" -> 4 [] c = "5" -> 5 [] c = "6" -> 6 [] c = "7" -> 7
      [] c = "8" -> 8 [] c = "9" -> 9

DigitChar(d) ==
    CASE d = 0 -> "0" [] d = 1 -> "1" [] d = 2 -> "2" [] d = 3 -> "3"
      [] d = 4 -> "4" [] d = 5 -> "5" [] d = 6 -> "6" [] d = 7 -> "7"
      [] d = 8 -> "8" [] d = 9 -> "9"

RECURSIVE DigitsVal(_)
DigitsVal(s) ==
    IF s = <<>> THEN 0
    ELSE 10 * DigitsVal(SubSeq(s, 1, Len(s) - 1)) + DigitVal(s[Len(s)])

\* int(text): surrounding whitespace and one sign are accepted, then the
\* rest must be a non-empty run of decimal digits; otherwise ValueError.
IntBody(s) ==
    LET t == strip(s, Whitespace)
    IN  IF t # <<>> /\ Head(t) \in {"+", "-"} THEN Tail(t) ELSE t

IntParses(s) == IntBody(s) # <<>> /\ Range(IntBody(s)) \subseteq Digits

IntValue(s) ==
    LET t == strip(s, Whitespace)
        v == DigitsVal(IntBody(s))
    IN  IF t # <<>> /\ Head(t) = "-" THEN 0 - v ELSE v

\* str(n) for n >= 0
RECURSIVE IntToStr(_)
IntToStr(n) ==
    IF n < 10 THEN <<DigitChar(n)>>
    ELSE IntToStr(n \div 10) \o <<DigitChar(n % 10)>>

\* number of "%s" conversions of a template
RECURSIVE Conversions(_)
Conversions(fmt) ==
    IF fmt = <<>> THEN 0
    ELSE (IF Head(fmt) = "%s" THEN 1 ELSE 0) + Conversions(Tail(fmt))

RECURSIVE Substitute(_, _)
Substitute(fmt, arg) ==
    IF fmt = <<>> THEN <<>>
    ELSE (IF Head(fmt) = "%s" THEN arg ELSE <<Head(fmt)>>)
         \o Substitute(Tail(fmt), arg)

\* format_string % (arg,): exactly one conversion, else TypeError
FormatRaises(fmt) == Conversions(fmt) # 1

Format(fmt, arg) == Substitute(fmt, arg)

\* ------------------------------------------------------------------- state
VARIABLES
    config,         \* [ticket-workflow] keys of the submitted action
    ticket,         \* the primary ticket object handed to the operations
    tickets,        \* the stored tickets: id -> [exists, values, changelog]
    hooks,          \* suffixes e for which the probe of run_external
                    \* found <env>/hooks/<action>e to exist
    req_args,       \* req.args: preview flag, xref input, comment
    warnings,       \* warnings added to the request (add_warning)
    log,            \* entries written to the Trac log
    effects,        \* outward effects in the order they happened
    field_changes,  \* the change-set merged so far by the host
    result,         \* what the last handler returned or raised
    pc,             \* position of the request pass
    idx             \* index of the next operation in config.operations

vars == <<config, ticket, tickets, hooks, req_args, warnings, log, effects,
          field_changes, result, pc, idx>>

\* -------------------------------------------------------------- vocabulary
OpNames == {"set_owner_to_reporter", "set_owner_to_component_owner",
            "set_owner_to_field", "set_field_to_author", "clear_fields",
            "set_owner_to_previous", "set_status_to_previous",
            "run_external", "triage", "xref", "reset_milestone", "set_state"}

\* operation lists of the actions considered: every operation alone, and
\* the two side-effect operations together in both orders
OpLists == {<<o>> : o \in OpNames}
           \cup {<<"xref", "run_external">>, <<"run_external", "xref">>,
                 <<"set_state", "set_field_to_author">>}

authname == <<"alice">>

PrimaryId == 1

TicketIds == 1..MaxTicket

\* the ticket fields known to the ticket system
TicketFields == {<<"status">>, <<"owner">>, <<"reporter">>, <<"type">>,
                 <<"component">>, <<"milestone">>, <<"qa">>}

New == <<"n", "e", "w">>

\* model.Component table: name -> owner
Components == [x \in {<<"core">>} |-> <<"carol">>]

\* model.Milestone table: name -> is_completed
Milestones == (<<"m1">> :> TRUE) @@ (<<"m2">> :> FALSE)

Suffixes == <<"", ".exe", ".cmd", ".bat">>

XRefDefault == <<"Ticket ", "%s", " is related to this ticket">>

XRefLocalDefault ==
    <<"Ticket ", "%s", " was marked as related to this ticket">>

BR == <<"[[BR]]">>

\* dict.get(key, default) on the action's attributes: None = key not set
GetOr(v, default) == IF v = None THEN default ELSE v

\* Ticket.__getitem__: the value, or None for a name without a value
TicketGet(t, name) ==
    IF name \in DOMAIN t.values THEN t.values[name] ELSE None

\* model.Ticket(env, text): "ValueError" if int(text) fails,
\* "ResourceNotFound" if no such ticket is stored, else "ok"
LoadTicket(tk, text) ==
    IF ~IntParses(text) THEN "ValueError"
    ELSE IF IntValue(text) \in DOMAIN tk /\ tk[IntValue(text)].exists
         THEN "ok" ELSE "ResourceNotFound"

\* Ticket.save_changes(author, comment, when) with no field change: a
\* comment row is appended unless the comment is empty
SaveComment(tk, id, author, comment) ==
    IF comment = <<>> THEN tk
    ELSE [tk EXCEPT ![id].changelog =
             Append(@, [field |-> <<"comment">>, author |-> author,
                        oldvalue |-> <<>>, newvalue |-> comment])]

EmptyChanges == <<>>

\* the outcome of a handler: the dict it returned, or the exception raised
Returned(op, phase, value) ==
    [op |-> op, phase |-> phase, exc |-> "", value |-> value]

Raised(op, phase, exc) ==
    [op |-> op, phase |-> phase, exc |-> exc, value |-> EmptyChanges]

\* a one-entry dict {key: value}
Dict1(key, value) == [k \in {key} |-> value]

\* dict.update as the host merges the operations' change-sets
Merge(old, new) ==
    [k \in DOMAIN old \cup DOMAIN new |->
        IF k \in DOMAIN new THEN new[k] ELSE old[k]]

Op == config.operations[idx]

\* ------------------------------------------------------------ input sets
IdChars == {"#", "0", "1", "2", "x"}

\* what the xref text input may hold; None: the input is not in the form
IdTexts == SeqsUpTo(IdChars, MaxIdLen) \cup {None}

Comments == {None, <<>>, <<"c">>}

\* values of <action>.xref and <action>.xref_local; None: not configured
Templates == {None, <<>>, <<"%s", " rel">>, <<"bad">>}

\* clauses of <action>.triage_split, as written in the configuration
Arrow == <<"-", ">">>

TriageClauses ==
    {pad \o v \o pad \o Arrow \o pad \o st \o pad :
        pad \in {<<>>, <<" ">>}, v \in {<<"d">>, <<"t">>},
        st \in {<<"n", "d">>, <<"n", "t">>}}
    \cup {<<>>, <<"d">>, <<"d">> \o Arrow \o <<"n", "d">> \o Arrow \o <<"x">>}

RECURSIVE Join(_, _)
Join(parts, sep) ==
    IF parts = <<>> THEN <<>>
    ELSE IF Len(parts) = 1 THEN parts[1]
    ELSE parts[1] \o sep \o Join(Tail(parts), sep)

\* values of <action>.triage_split: up to MaxClauses clauses joined by ","
\* (a key that is not set reads as the empty string)
TriageTables ==
    {Join(cs, <<",">>) : cs \in SeqsUpTo(TriageClauses, MaxClauses)}

TriageValues == {<<"d">>, <<" ", "t">>, <<"z">>, <<>>}

\* configured field names, as written (the code strips them)
FieldConfigs == {<<"qa">>, <<" ", "qa", " ">>, <<"nofield">>, <<>>}

FieldLists == {<<>>, <<<<"qa">>>>, <<<<"qa">>, <<"milestone">>>>,
               <<<<"qa">>, <<"qa">>>>, <<<<"nofield">>>>}

HistoryRows ==
    {[field |-> f, author |-> <<"bob">>, oldvalue |-> o, newvalue |-> <<"v">>] :
        f \in {<<"owner">>, <<"status">>}, o \in {<<"o1">>, <<"o2">>}}

Histories == SeqsUpTo(HistoryRows, MaxHistory)

DefaultValues ==
    [f \in TicketFields |->
        CASE f = <<"status">> -> <<"assigned">>
          [] f = <<"owner">> -> <<"bob">>
          [] f = <<"reporter">> -> <<"rita">>
          [] f = <<"type">> -> <<"d">>
          [] f = <<"component">> -> <<"core">>
          [] f = <<"milestone">> -> <<"m1">>
          [] OTHER -> <<>>]

DefaultConfig ==
    [operations |-> <<>>, newstate |-> <<"closed">>,
     xref |-> None, xref_local |-> None,
     triage_field |-> <<"type">>, triage_split |-> <<>>,
     set_field_to_author |-> <<"qa">>, set_owner_to_field |-> <<"qa">>,
     clear_fields |-> <<>>]

Has(ops, o) == o \in Range(ops)

\* the configurations of the action, by the operations attached to it
Configs(ops) ==
    {[DefaultConfig EXCEPT
         !.operations = ops, !.xref = x, !.xref_local = xl,
         !.triage_field = tf, !.triage_split = ts,
         !.set_field_to_author = fa, !.set_owner_to_field = fo,
         !.clear_fields = cf, !.newstate = ns] :
       x \in IF Has(ops, "xref") THEN Templates ELSE {None},
       xl \in IF Has(ops, "xref") THEN Templates ELSE {None},
       tf \in IF Has(ops, "triage") THEN {<<"type">>, <<"nofield">>}
              ELSE {<<"type">>},
       ts \in IF Has(ops, "triage") THEN TriageTables ELSE {<<>>},
       fa \in IF Has(ops, "set_field_to_author") THEN FieldConfigs
              ELSE {<<"qa">>},
       fo \in IF Has(ops, "set_owner_to_field") THEN FieldConfigs
              ELSE {<<"qa">>},
       cf \in IF Has(ops, "clear_fields") THEN FieldLists ELSE {<<>>},
       ns \in IF Has(ops, "set_state") THEN {<<"closed">>, <<"assigned">>}
              ELSE {<<"closed">>}}

\* the field values of the primary ticket, by the operations that read them
Values(ops) ==
    {[DefaultValues EXCEPT
         ![<<"type">>] = ty, ![<<"component">>] = co,
         ![<<"milestone">>] = mi, ![<<"qa">>] = q] :
       ty \in IF Has(ops, "triage") THEN TriageValues ELSE {<<"d">>},
       co \in IF Has(ops, "set_owner_to_component_owner")
              THEN {<<"core">>, <<"gone">>} ELSE {<<"core">>},
       mi \in IF Has(ops, "reset_milestone")
              THEN {<<>>, <<"m1">>, <<"m2">>, <<"m9">>} ELSE {<<"m1">>},
       q \in IF Has(ops, "set_owner_to_field") \/ Has(ops, "clear_fields")
             THEN {<<>>, <<"quinn">>} ELSE {<<>>}}

Stored(exists, values, changelog) ==
    [exists |-> exists, values |-> values, changelog |-> changelog]

Init ==
    \E ops \in OpLists :
      /\ config \in Configs(ops)
      /\ \E vals \in Values(ops) :
           /\ ticket = [id |-> PrimaryId, values |-> vals]
           /\ \E others \in SUBSET (TicketIds \ {PrimaryId}),
                 h \in IF Has(ops, "set_owner_to_previous")
                          \/ Has(ops, "set_status_to_previous")
                       THEN Histories ELSE {<<>>} :
                /\ others # {} => Has(ops, "xref")
                /\ tickets =
                     [i \in TicketIds |->
                        IF i = PrimaryId THEN Stored(TRUE, vals, h)
                        ELSE Stored(i \in others, DefaultValues, <<>>)]
      /\ hooks = {}
      /\ req_args \in
           [preview : BOOLEAN,
            xref : IF Has(ops, "xref") THEN IdTexts ELSE {None},
            comment : IF Has(ops, "xref") THEN Comments ELSE {<<"c">>}]
      /\ warnings = <<>>
      /\ log = <<>>
      /\ effects = <<>>
      /\ field_changes = EmptyChanges
      /\ result = Returned("", "", EmptyChanges)
      /\ pc = "compute"
      /\ idx = 1

\* ---------------------------------------------------- the host's request pass
\* (trac.ticket.web_ui: not part of this plugin; modelled from the data flow
\* the operations are written against)

Truthy(text) == text # None /\ text # <<>>

\* after an operation's get_ticket_changes: merge, go to the next operation,
\* and after the last one apply the merged change-set; an exception ends
\* the request
HostAfterChanges(res) ==
    /\ result' = res
    /\ IF res.exc # ""
       THEN /\ pc' = "failed"
            /\ UNCHANGED <<field_changes, idx>>
       ELSE /\ field_changes' = Merge(field_changes, res.value)
            /\ idx' = idx + 1
            /\ pc' = IF idx = Len(config.operations) THEN "apply" ELSE "compute"

\* after an operation's apply_action_side_effects
HostAfterSideEffects(res) ==
    /\ result' = res
    /\ IF res.exc # ""
       THEN /\ pc' = "failed"
            /\ UNCHANGED idx
       ELSE /\ idx' = idx + 1
            /\ pc' = IF idx = Len(config.operations) THEN "done"
                     ELSE "side_effects"

Computing(op) ==
    /\ pc = "compute"
    /\ idx \in 1..Len(config.operations)
    /\ Op = op

Applying(op) ==
    /\ pc = "side_effects"
    /\ idx \in 1..Len(config.operations)
    /\ Op = op

\* the merged change-set is applied to the ticket object; a preview stops here
ApplyChanges ==
    /\ pc = "apply"
    /\ ticket' = [ticket EXCEPT !.values = Merge(@, field_changes)]
    /\ pc' = IF req_args.preview THEN "done" ELSE "save"
    /\ UNCHANGED <<config, tickets, hooks, req_args, warnings, log, effects,
                   field_changes, result, idx>>

\* the primary ticket is saved with the submitted comment
SaveTicket ==
    /\ pc = "save"
    /\ tickets' =
         SaveComment([tickets EXCEPT ![ticket.id].values = ticket.values],
                     ticket.id, authname,
                     IF Truthy(req_args.comment) THEN req_args.comment
                     ELSE <<>>)
    /\ effects' = Append(effects, [kind |-> "save", ticket |-> ticket.id])
    /\ pc' = "side_effects"
    /\ idx' = 1
    /\ UNCHANGED <<config, ticket, hooks, req_args, warnings, log,
                   field_changes, result>>

\* ------------------------------------------------------- TicketWorkflowOpXRef
\* variant: the new sentence is put after the existing comment
XRefLocalComment_appended(format_string, ticket_num, oldcomment) ==
    (IF Truthy(oldcomment) THEN oldcomment ELSE <<>>)
    \o (IF Truthy(oldcomment) THEN BR ELSE <<>>)
    \o Format(format_string, <<"#">> \o ticket_num)

\* the comment written into req.args['comment'] (lines 552-554)
XRefLocalComment(format_string, ticket_num, oldcomment) ==
    Format(format_string, <<"#">> \o ticket_num)
    \o (IF Truthy(oldcomment) THEN BR ELSE <<>>)
    \o (IF Truthy(oldcomment) THEN oldcomment ELSE <<>>)

\* variant: the warning does not carry the rejected input
XRefWarning_anonymous(load, ticket_num) ==
    IF load = "ValueError"
    THEN [msg |-> "was not a number", arg |-> <<>>]
    ELSE [msg |-> "Unable to cross-reference Ticket", arg |-> <<>>]

\* the warning added for an input that model.Ticket rejects
XRefWarning(load, ticket_num) ==
    IF load = "ValueError"
    THEN [msg |-> "was not a number", arg |-> ticket_num]
    ELSE [msg |-> "Unable to cross-reference Ticket", arg |-> ticket_num]

\* variant: a rejected input does not put the request in preview mode
XRefRejected_saved(args) == args

\* req.args['preview'] = True (lines 532 and 538)
XRefRejected(args) == [args EXCEPT !.preview = TRUE]

\* variant: the preview flag is not consulted
XRefSkips_never(args) == FALSE

\* "if not 'preview' in req.args" (line 525): the operation does nothing
XRefSkips(args) == args.preview

XRef_get_ticket_changes ==
    /\ Computing("xref")
    /\ IF XRefSkips(req_args)
       THEN /\ HostAfterChanges(Returned("xref", "changes", EmptyChanges))
            /\ UNCHANGED <<req_args, warnings>>
       ELSE IF req_args.xref = None
       THEN \* None.strip('#')
            /\ HostAfterChanges(Raised("xref", "changes", "AttributeError"))
            /\ UNCHANGED <<req_args, warnings>>
       ELSE LET ticket_num == strip(req_args.xref, {"#"})
                load == LoadTicket(tickets, ticket_num)
                format_string == GetOr(config.xref_local, XRefLocalDefault)
            IN  IF load # "ok"
                THEN /\ req_args' = XRefRejected(req_args)
                     /\ warnings' =
                          Append(warnings, XRefWarning(load, ticket_num))
                     /\ HostAfterChanges(
                          Returned("xref", "changes", EmptyChanges))
                ELSE IF format_string = <<>>
                THEN /\ HostAfterChanges(
                          Returned("xref", "changes", EmptyChanges))
                     /\ UNCHANGED <<req_args, warnings>>
                ELSE IF FormatRaises(format_string)
                THEN /\ HostAfterChanges(
                          Raised("xref", "changes", "TypeError"))
                     /\ UNCHANGED <<req_args, warnings>>
                ELSE /\ req_args' =
                          [req_args EXCEPT !.comment =
                             XRefLocalComment(format_string, ticket_num,
                                              req_args.comment)]
                     /\ HostAfterChanges(
                          Returned("xref", "changes", EmptyChanges))
                     /\ UNCHANGED warnings
    /\ UNCHANGED <<config, ticket, tickets, hooks, log, effects>>

\* the comment saved on the referenced ticket (lines 569-571)
XRefComment(format_string, id) == Format(format_string, <<"#">> \o IntToStr(id))

\* what the side effect does once the referenced ticket is loaded: the
\* comment is saved, then the notification is dispatched (lines 576-582)
XRefEffects(xid, comment, failed) ==
    <<[kind |-> "save_changes", ticket |-> xid, author |-> authname,
       comment |-> comment],
      [kind |-> "notify", event |-> "changed", ticket |-> xid,
       author |-> authname, failed |-> failed]>>

\* the handler of a failed dispatch (lines 583-585): what it logs, and the
\* exception that leaves apply_action_side_effects (none)
XRefNotifyFailed(lg, ticketnum) ==
    Append(lg, [level |-> "exception", op |-> "xref",
                msg |-> "Failure sending notification", arg |-> ticketnum])

\* variant: the dispatch is not guarded, its exception leaves the handler
XRefNotifyExc_unguarded(failed) == IF failed THEN "Exception" ELSE ""

XRefNotifyExc(failed) == ""

XRef_apply_action_side_effects ==
    /\ Applying("xref")
    /\ IF req_args.xref = None
       THEN /\ HostAfterSideEffects(
                 Raised("xref", "side_effects", "AttributeError"))
            /\ UNCHANGED <<tickets, log, effects>>
       ELSE LET ticketnum == strip(req_args.xref, {"#"})
                format_string == GetOr(config.xref, XRefDefault)
                load == LoadTicket(tickets, ticketnum)
                xid == IntValue(ticketnum)
            IN  IF FormatRaises(format_string)
                THEN /\ HostAfterSideEffects(
                          Raised("xref", "side_effects", "TypeError"))
                     /\ UNCHANGED <<tickets, log, effects>>
                ELSE IF load # "ok"
                THEN /\ HostAfterSideEffects(
                          Raised("xref", "side_effects", load))
                     /\ UNCHANGED <<tickets, log, effects>>
                ELSE \E failed \in BOOLEAN :
                       LET comment == XRefComment(format_string, ticket.id)
                       IN  /\ tickets' =
                                SaveComment(tickets, xid, authname, comment)
                           /\ effects' =
                                effects \o XRefEffects(xid, comment, failed)
                           /\ log' = IF failed
                                     THEN XRefNotifyFailed(log, ticketnum)
                                     ELSE log
                           /\ HostAfterSideEffects(
                                IF XRefNotifyExc(failed) # ""
                                THEN Raised("xref", "side_effects",
                                            XRefNotifyExc(failed))
                                ELSE Returned("xref", "side_effects",
                                              EmptyChanges))
    /\ UNCHANGED <<config, ticket, hooks, req_args, warnings, field_changes>>

\* ------------------------------------------------ TicketWorkflowOpRunExternal
RunExternal_get_ticket_changes ==
    /\ Computing("run_external")
    /\ HostAfterChanges(Returned("run_external", "changes", EmptyChanges))
    /\ UNCHANGED <<config, ticket, tickets, hooks, req_args, warnings, log,
                   effects>>

\* variant: the loop does not stop at the first path that exists
RECURSIVE FindScript_last(_, _)
FindScript_last(existing, i) ==
    IF i > Len(Suffixes) THEN 0
    ELSE IF FindScript_last(existing, i + 1) # 0
    THEN FindScript_last(existing, i + 1)
    ELSE IF Suffixes[i] \in existing THEN i ELSE 0

\* the for ... else loop over the suffixes (lines 422-430): the index of the
\* first suffix, from position i on, whose path exists; 0 if there is none
RECURSIVE FindScript(_, _)
FindScript(existing, i) ==
    IF i > Len(Suffixes) THEN 0
    ELSE IF Suffixes[i] \in existing THEN i
    ELSE FindScript(existing, i + 1)

\* call([script, str(ticket.id), req.authname]) (line 431)
CallEffect(i, retval) ==
    [kind |-> "call", script |-> Suffixes[i],
     argv |-> <<IntToStr(ticket.id), authname>>, retval |-> retval]

\* variant: a non-zero return code is not reported
RunExternalLog_silent(lg, i, retval) ==
    IF i = 0
    THEN Append(lg, [level |-> "error", op |-> "run_external",
                     msg |-> "could not find external command", arg |-> <<>>])
    ELSE lg

\* what the handler writes to the log (lines 427-429, 432-434)
RunExternalLog(lg, i, retval) ==
    IF i = 0
    THEN Append(lg, [level |-> "error", op |-> "run_external",
                     msg |-> "could not find external command", arg |-> <<>>])
    ELSE IF retval # 0
    THEN Append(lg, [level |-> "error", op |-> "run_external",
                     msg |-> "exited with return code",
                     arg |-> <<Suffixes[i]>>])
    ELSE lg

ExitCodes == {0, 1}

\* the hooks directory is read when the handler runs: existing is what
\* os.path.exists answers for the four paths, retval what the script returns
RunExternal_apply_action_side_effects ==
    /\ Applying("run_external")
    /\ \E existing \in SUBSET Range(Suffixes), retval \in ExitCodes :
         LET i == FindScript(existing, 1)
         IN  /\ hooks' = existing
             /\ effects' = IF i = 0 THEN effects
                           ELSE Append(effects, CallEffect(i, retval))
             /\ log' = RunExternalLog(log, i, retval)
    /\ HostAfterSideEffects(Returned("run_external", "side_effects",
                                     EmptyChanges))
    /\ UNCHANGED <<config, ticket, tickets, req_args, warnings,
                   field_changes>>

\* -------------------------------------------------- the simple operations
Frame == UNCHANGED <<config, ticket, tickets, hooks, req_args, warnings,
                     effects>>

OwnerReporter_get_ticket_changes ==
    /\ Computing("set_owner_to_reporter")
    /\ HostAfterChanges(Returned("set_owner_to_reporter", "changes",
                          Dict1(<<"owner">>, TicketGet(ticket, <<"reporter">>))))
    /\ UNCHANGED log
    /\ Frame

\* TicketWorkflowOpOwnerComponent._new_owner
ComponentOwner(t) ==
    IF TicketGet(t, <<"component">>) \in DOMAIN Components
    THEN Components[TicketGet(t, <<"component">>)]
    ELSE None

Warn(lg, op) ==
    Append(lg, [level |-> "warning", op |-> op, msg |-> "ResourceNotFound",
                arg |-> <<>>])

OwnerComponent_get_ticket_changes ==
    /\ Computing("set_owner_to_component_owner")
    /\ HostAfterChanges(Returned("set_owner_to_component_owner", "changes",
                          Dict1(<<"owner">>, ComponentOwner(ticket))))
    /\ log' = IF TicketGet(ticket, <<"component">>) \in DOMAIN Components
              THEN log ELSE Warn(log, "set_owner_to_component_owner")
    /\ Frame

OwnerField_get_ticket_changes ==
    /\ Computing("set_owner_to_field")
    /\ HostAfterChanges(Returned("set_owner_to_field", "changes",
          Dict1(<<"owner">>,
                TicketGet(ticket, strip(config.set_owner_to_field,
                                        Whitespace)))))
    /\ UNCHANGED log
    /\ Frame

\* TicketWorkflowOpFieldAuthor._field_name
FieldAuthorName(cfg) == strip(cfg.set_field_to_author, Whitespace)

\* TicketWorkflowOpFieldAuthor.get_ticket_changes
FieldAuthorChanges(cfg) == Dict1(FieldAuthorName(cfg), authname)

FieldAuthor_get_ticket_changes ==
    /\ Computing("set_field_to_author")
    /\ HostAfterChanges(Returned("set_field_to_author", "changes",
                                 FieldAuthorChanges(config)))
    /\ UNCHANGED log
    /\ Frame

\* variant: the first configured name is skipped
FieldsClearChanges_skipfirst(names) ==
    [k \in Range(IF names = <<>> THEN names ELSE Tail(names)) |-> <<>>]

\* TicketWorkflowOpFieldsClear.get_ticket_changes: {x: '' for x in names}
FieldsClearChanges(names) == [k \in Range(names) |-> <<>>]

FieldsClear_get_ticket_changes ==
    /\ Computing("clear_fields")
    /\ HostAfterChanges(Returned("clear_fields", "changes",
                                 FieldsClearChanges(config.clear_fields)))
    /\ UNCHANGED log
    /\ Frame

\* SELECT oldvalue FROM ticket_change WHERE ticket=%s AND field=%s
\* ORDER BY time DESC LIMIT 1: the rows found, newest first, at most one
\* variant: the rows are ordered by time ascending, the oldest row is taken
RECURSIVE LastOldValue_oldest(_, _)
LastOldValue_oldest(changelog, field) ==
    IF changelog = <<>> THEN <<>>
    ELSE IF Head(changelog).field = field
    THEN <<Head(changelog).oldvalue>>
    ELSE LastOldValue_oldest(Tail(changelog), field)

RECURSIVE LastOldValue(_, _)
LastOldValue(changelog, field) ==
    IF changelog = <<>> THEN <<>>
    ELSE IF changelog[Len(changelog)].field = field
    THEN <<changelog[Len(changelog)].oldvalue>>
    ELSE LastOldValue(SubSeq(changelog, 1, Len(changelog) - 1), field)

\* TicketWorkflowOpOwnerPrevious._new_owner
PreviousOwner(t, tk) ==
    LET rows == LastOldValue(tk[t.id].changelog, <<"owner">>)
    IN  IF rows # <<>> THEN rows[1] ELSE TicketGet(t, <<"owner">>)

\* TicketWorkflowOpStatusPrevious._new_status
PreviousStatus(t, tk) ==
    LET rows == LastOldValue(tk[t.id].changelog, <<"status">>)
    IN  IF rows # <<>> THEN rows[1] ELSE New

OwnerPrevious_get_ticket_changes ==
    /\ Computing("set_owner_to_previous")
    /\ HostAfterChanges(Returned("set_owner_to_previous", "changes",
                          Dict1(<<"owner">>, PreviousOwner(ticket, tickets))))
    /\ UNCHANGED log
    /\ Frame

StatusPrevious_get_ticket_changes ==
    /\ Computing("set_status_to_previous")
    /\ HostAfterChanges(Returned("set_status_to_previous", "changes",
                          Dict1(<<"status">>, PreviousStatus(ticket, tickets))))
    /\ UNCHANGED log
    /\ Frame

\* TicketWorkflowOpResetMilestone._fetch_milestone: "found" and completed,
\* "found" and open, or None (empty field, or no such milestone)
MilestoneCompleted(t) ==
    /\ Truthy(TicketGet(t, <<"milestone">>))
    /\ TicketGet(t, <<"milestone">>) \in DOMAIN Milestones
    /\ Milestones[TicketGet(t, <<"milestone">>)]

ResetMilestoneChanges(t) ==
    IF MilestoneCompleted(t) THEN Dict1(<<"milestone">>, <<>>)
    ELSE EmptyChanges

\* what _fetch_milestone writes to the log (lines 631-632)
FetchMilestoneLog(lg, t) ==
    IF /\ Truthy(TicketGet(t, <<"milestone">>))
       /\ TicketGet(t, <<"milestone">>) \notin DOMAIN Milestones
    THEN Warn(lg, "reset_milestone") ELSE lg

ResetMilestone_get_ticket_changes ==
    /\ Computing("reset_milestone")
    /\ HostAfterChanges(Returned("reset_milestone", "changes",
                                 ResetMilestoneChanges(ticket)))
    /\ log' = FetchMilestoneLog(log, ticket)
    /\ Frame

\* actions[action]['label']
Label == <<"Reopen">>

\* variant: the hint is given for any milestone that is found
ResetMilestoneHint_found(t) ==
    IF /\ Truthy(TicketGet(t, <<"milestone">>))
       /\ TicketGet(t, <<"milestone">>) \in DOMAIN Milestones
    THEN <<"The milestone will be reset.">> ELSE <<>>

\* the hint of render_ticket_action_control (lines 613-617)
ResetMilestoneHint(t) ==
    IF MilestoneCompleted(t) THEN <<"The milestone will be reset.">>
    ELSE <<>>

\* the form is rendered before it is submitted: (label, control, hint)
ResetMilestone_render_ticket_action_control ==
    /\ Computing("reset_milestone")
    /\ result.phase = ""
    /\ result' = Returned("reset_milestone", "render",
                          [label |-> Label, control |-> <<>>,
                           hint |-> ResetMilestoneHint(ticket)])
    /\ log' = FetchMilestoneLog(log, ticket)
    /\ UNCHANGED <<field_changes, pc, idx>>
    /\ Frame

\* TicketWorkflowOpSetState.get_ticket_changes
SetStateChanges(cfg, t) ==
    IF cfg.newstate = TicketGet(t, <<"status">>) THEN EmptyChanges
    ELSE Dict1(<<"status">>, cfg.newstate)

SetState_get_ticket_changes ==
    /\ Computing("set_state")
    /\ HostAfterChanges(Returned("set_state", "changes",
                                 SetStateChanges(config, ticket)))
    /\ UNCHANGED log
    /\ Frame

\* ---------------------------------------------------- TicketWorkflowOpTriage
\* position of the first occurrence of sep in s at or after i; 0 if none
RECURSIVE Find(_, _, _)
Find(s, sep, i) ==
    IF i + Len(sep) - 1 > Len(s) THEN 0
    ELSE IF SubSeq(s, i, i + Len(sep) - 1) = sep THEN i
    ELSE Find(s, sep, i + 1)

\* str.split(sep)
RECURSIVE Split(_, _)
Split(s, sep) ==
    LET i == Find(s, sep, 1)
    IN  IF i = 0 THEN <<s>>
        ELSE <<SubSeq(s, 1, i - 1)>>
             \o Split(SubSeq(s, i + Len(sep), Len(s)), sep)

StripAll(parts) == [i \in 1..Len(parts) |-> strip(parts[i], Whitespace)]

\* variant: the loop does not break, a later matching clause overrides
RECURSIVE TriageLoop_lastmatch(_, _, _)
TriageLoop_lastmatch(transitions, i, fieldvalue) ==
    IF i > Len(transitions)
    THEN [exc |-> "", status |-> New, logged |-> TRUE]
    ELSE LET parts == StripAll(Split(transitions[i], Arrow))
             rest == TriageLoop_lastmatch(transitions, i + 1, fieldvalue)
         IN  IF Len(parts) # 2
             THEN [exc |-> "ValueError", status |-> <<>>, logged |-> FALSE]
             ELSE IF fieldvalue = None
             THEN [exc |-> "AttributeError", status |-> <<>>,
                   logged |-> FALSE]
             ELSE IF rest.exc # "" \/ ~rest.logged THEN rest
             ELSE IF parts[1] = strip(fieldvalue, Whitespace)
             THEN [exc |-> "", status |-> parts[2], logged |-> FALSE]
             ELSE rest

\* the for ... else loop of _new_status from clause i on (lines 479-486):
\* the status, whether the configuration error was logged, or the exception
RECURSIVE TriageLoop(_, _, _)
TriageLoop(transitions, i, fieldvalue) ==
    IF i > Len(transitions)
    THEN [exc |-> "", status |-> New, logged |-> TRUE]
    ELSE LET parts == StripAll(Split(transitions[i], Arrow))
         IN  IF Len(parts) # 2
             THEN [exc |-> "ValueError", status |-> <<>>, logged |-> FALSE]
             ELSE IF fieldvalue = None
             THEN [exc |-> "AttributeError", status |-> <<>>,
                   logged |-> FALSE]
             ELSE IF parts[1] = strip(fieldvalue, Whitespace)
             THEN [exc |-> "", status |-> parts[2], logged |-> FALSE]
             ELSE TriageLoop(transitions, i + 1, fieldvalue)

\* TicketWorkflowOpTriage._new_status
TriageNewStatus(cfg, t) ==
    LET field == strip(cfg.triage_field, Whitespace)
        transitions == strip(cfg.triage_split, Whitespace)
    IN  TriageLoop(StripAll(Split(transitions, <<",">>)), 1,
                   TicketGet(t, field))

Triage_get_ticket_changes ==
    /\ Computing("triage")
    /\ LET r == TriageNewStatus(config, ticket)
       IN  /\ HostAfterChanges(
                IF r.exc # "" THEN Raised("triage", "changes", r.exc)
                ELSE Returned("triage", "changes",
                              Dict1(<<"status">>, r.status)))
           /\ log' = IF r.logged
                     THEN Append(log, [level |-> "error", op |-> "triage",
                                       msg |-> "Bad configuration",
                                       arg |-> <<>>])
                     ELSE log
    /\ Frame

\* TicketWorkflowOpBase.apply_action_side_effects: no side effects
Base_apply_action_side_effects ==
    /\ pc = "side_effects"
    /\ idx \in 1..Len(config.operations)
    /\ Op \notin {"xref", "run_external"}
    /\ HostAfterSideEffects(Returned(Op, "side_effects", EmptyChanges))
    /\ UNCHANGED <<config, ticket, tickets, hooks, req_args, warnings, log,
                   effects, field_changes>>

\* ------------------------------------------------------------ specification
Next ==
    \/ XRef_get_ticket_changes
    \/ RunExternal_get_ticket_changes
    \/ OwnerReporter_get_ticket_changes
    \/ OwnerComponent_get_ticket_changes
    \/ OwnerField_get_ticket_changes
    \/ FieldAuthor_get_ticket_changes
    \/ FieldsClear_get_ticket_changes
    \/ OwnerPrevious_get_ticket_changes
    \/ StatusPrevious_get_ticket_changes
    \/ ResetMilestone_get_ticket_changes
    \/ ResetMilestone_render_ticket_action_control
    \/ SetState_get_ticket_changes
    \/ Triage_get_ticket_changes
    \/ ApplyChanges
    \/ SaveTicket
    \/ XRef_apply_action_side_effects
    \/ RunExternal_apply_action_side_effects
    \/ Base_apply_action_side_effects

Spec == Init /\ [][Next]_vars

\* ------------------------------------------------------------------ claims
\* the xref input of the request, '#' stripped, as both handlers read it
XRefInput == strip(req_args.xref, {"#"})

\* the input names a stored ticket
XRefInputValid ==
    /\ IntParses(XRefInput)
    /\ \E i \in TicketIds : i = IntValue(XRefInput) /\ tickets[i].exists

\* xref get_ticket_changes is about to run outside preview mode on a
\* submitted input
XRefComputes ==
    /\ Computing("xref")
    /\ ~req_args.preview
    /\ req_args.xref # None

\* C1: when xref get_ticket_changes runs outside preview mode on an input
\* that is not a ticket number or names no stored ticket, it sets the
\* preview flag, adds exactly one warning that names the input, returns an
\* empty change-set and leaves the comment and every ticket unchanged.
C1_BadReferenceForcesPreview ==
    [][(XRefComputes /\ ~XRefInputValid) =>
         /\ req_args'.preview
         /\ warnings' = Append(warnings, warnings'[Len(warnings')])
         /\ warnings'[Len(warnings')].arg = XRefInput
         /\ result'.op = "xref" /\ result'.exc = ""
         /\ result'.value = EmptyChanges
         /\ field_changes' = field_changes
         /\ req_args'.comment = req_args.comment
         /\ req_args'.xref = req_args.xref
         /\ tickets' = tickets
         /\ ticket' = ticket]_vars

\* an input that is not a number was rejected: one warning, preview forced
C1_Witness ==
    /\ result.op = "xref" /\ result.phase = "changes"
    /\ Len(warnings) = 1
    /\ warnings[1].msg = "was not a number"
    /\ warnings[1].arg = <<"x">>
    /\ req_args.preview
    /\ req_args.comment = <<"c">>

\* the template of the comment on the primary ticket
XRefLocalTemplate == GetOr(config.xref_local, XRefLocalDefault)

EffectsOf(k) == SelectSeq(effects, LAMBDA e : e.kind = k)

\* the template of the comment on the referenced ticket
XRefTemplate == GetOr(config.xref, XRefDefault)

\* the reciprocal comment: the xref template with the primary ticket's id
Reciprocal ==
    [field |-> <<"comment">>, author |-> authname, oldvalue |-> <<>>,
     newvalue |-> Substitute(XRefTemplate, <<"#">> \o IntToStr(ticket.id))]

\* C3 as stated: once get_ticket_changes has validated the input outside
\* preview mode, one run of xref apply_action_side_effects (with a template
\* of one conversion) appends exactly one reciprocal comment, by the acting
\* user, to the referenced ticket, dispatches exactly one 'changed'
\* notification for it after the comment is saved, and leaves the primary
\* ticket as it was.
C3_Original ==
    [][(Applying("xref") /\ XRefInputValid /\ Conversions(XRefTemplate) = 1) =>
         LET x == IntValue(XRefInput)
         IN  /\ result'.exc = ""
             /\ tickets'[x].changelog = Append(tickets[x].changelog, Reciprocal)
             /\ Len(effects') = Len(effects) + 2
             /\ effects'[Len(effects) + 1].kind = "save_changes"
             /\ effects'[Len(effects) + 1].ticket = x
             /\ effects'[Len(effects) + 2].kind = "notify"
             /\ effects'[Len(effects) + 2].event = "changed"
             /\ effects'[Len(effects) + 2].ticket = x
             /\ ticket' = ticket
             /\ tickets'[ticket.id] = tickets[ticket.id]]_vars

\* C4: when the dispatch of the notification fails, the handler logs the
\* failure and returns: the request does not fail, the reciprocal comment
\* saved just before the dispatch is still stored, and the changes applied
\* to the primary ticket are still those of the change-set.
C4_NotifyFailureSwallowed ==
    \A i \in 1..Len(effects) :
      (effects[i].kind = "notify" /\ effects[i].failed) =>
        /\ pc # "failed"
        /\ i > 1
        /\ effects[i - 1].kind = "save_changes"
        /\ effects[i - 1].ticket = effects[i].ticket
        /\ \E r \in 1..Len(tickets[effects[i].ticket].changelog) :
             /\ tickets[effects[i].ticket].changelog[r].newvalue
                  = effects[i - 1].comment
             /\ tickets[effects[i].ticket].changelog[r].author = authname
        /\ \E l \in 1..Len(log) :
             log[l].level = "exception" /\ log[l].op = "xref"
        /\ tickets[ticket.id].values = ticket.values
        /\ \A k \in DOMAIN field_changes : ticket.values[k] = field_changes[k]

\* the dispatch for ticket 2 failed and the request went on to its end
C4_Witness ==
    /\ pc = "done"
    /\ result.op = "xref" /\ result.phase = "side_effects" /\ result.exc = ""
    /\ Len(effects) = 3
    /\ effects[3].kind = "notify" /\ effects[3].failed
    /\ effects[3].ticket = 2
    /\ Len(tickets[2].changelog) = 1

\* the operation whose handler produced an effect
EffectOp(e) == IF e.kind = "call" THEN "run_external" ELSE "xref"

\* position of an operation in the action's list
OpIndex(o) == CHOOSE i \in 1..Len(config.operations) : config.operations[i] = o

\* C5: side effects happen only after the merged change-set is applied to
\* the primary ticket and saved, in the order the operations are attached;
\* a missing script, a non-zero return code and a failed notification are
\* each logged, and none of them changes what was applied to the primary
\* ticket.
C5_SideEffectsAfterPrimary ==
    /\ (pc = "side_effects" \/ Len(effects) > 0) =>
         /\ effects[1].kind = "save" /\ effects[1].ticket = ticket.id
         /\ \A i \in 2..Len(effects) : effects[i].kind # "save"
         /\ \A k \in DOMAIN field_changes : ticket.values[k] = field_changes[k]
         /\ tickets[ticket.id].values = ticket.values
    /\ \A i, j \in 2..Len(effects) :
         i < j => OpIndex(EffectOp(effects[i])) <= OpIndex(EffectOp(effects[j]))
    /\ \A i \in 1..Len(effects) :
         /\ (effects[i].kind = "call" /\ effects[i].retval # 0) =>
              \E l \in 1..Len(log) :
                /\ log[l].level = "error" /\ log[l].op = "run_external"
                /\ log[l].msg = "exited with return code"
         /\ (effects[i].kind = "notify" /\ effects[i].failed) =>
              \E l \in 1..Len(log) :
                log[l].level = "exception" /\ log[l].op = "xref"
    /\ (result.op = "run_external" /\ result.phase = "side_effects"
        /\ hooks = {}) =>
         /\ pc # "failed"
         /\ \E l \in 1..Len(log) :
              /\ log[l].level = "error" /\ log[l].op = "run_external"
              /\ log[l].msg = "could not find external command"

\* xref then run_external: the comment and the failed notification came
\* before the script, which returned non-zero, after the primary was saved
C5_Witness ==
    /\ pc = "done"
    /\ config.operations = <<"xref", "run_external">>
    /\ Len(effects) = 4
    /\ effects[1].kind = "save"
    /\ effects[3].kind = "notify" /\ effects[3].failed
    /\ effects[4].kind = "call" /\ effects[4].retval # 0
    /\ Len(log) = 2

\* the first suffix, in probing order, whose path exists
FirstExisting ==
    CHOOSE s \in hooks :
      \A t \in hooks :
        \E i, j \in 1..Len(Suffixes) :
          Suffixes[i] = s /\ Suffixes[j] = t /\ i <= j

\* C6: run_external apply_action_side_effects probes '', '.exe', '.cmd',
\* '.bat' in that order: with none of the paths existing it starts no
\* process, logs one error and returns; otherwise it starts exactly one
\* process, for the first existing path, with the ticket id and the acting
\* user as its arguments.
C6_FirstExistingScript ==
    (result.op = "run_external" /\ result.phase = "side_effects") =>
      /\ result.exc = ""
      /\ pc # "failed"
      /\ IF hooks = {}
         THEN /\ EffectsOf("call") = <<>>
              /\ Cardinality({l \in 1..Len(log) :
                                log[l].op = "run_external"}) = 1
         ELSE /\ Len(EffectsOf("call")) = 1
              /\ EffectsOf("call")[1].script = FirstExisting
              /\ EffectsOf("call")[1].argv = <<<<"1">>, <<"alice">>>>

\* '.exe' and '.bat' exist, '' does not: the process is started for '.exe'
C6_Witness ==
    /\ result.op = "run_external" /\ result.phase = "side_effects"
    /\ hooks = {".exe", ".bat"}
    /\ Len(EffectsOf("call")) = 1
    /\ EffectsOf("call")[1].script = ".exe"

\* the clauses of the triage table as configured, and the two sides of each
TriageClauseTexts == Split(strip(config.triage_split, Whitespace), <<",">>)

ClauseSides(c) == Split(c, Arrow)

\* every clause has exactly one '->'
TriageWellFormed ==
    \A c \in 1..Len(TriageClauseTexts) :
      Len(ClauseSides(TriageClauseTexts[c])) = 2

TriageFieldValue == TicketGet(ticket, config.triage_field)

\* clause c names the current value of the triage field
ClauseMatches(c) ==
    strip(ClauseSides(TriageClauseTexts[c])[1], Whitespace)
      = strip(TriageFieldValue, Whitespace)

\* triage get_ticket_changes has just run on a field that has a value
TriageRan ==
    /\ result.op = "triage" /\ result.phase = "changes"
    /\ pc \in {"apply", "failed"}
    /\ TriageFieldValue # None

TriageErrors ==
    Cardinality({l \in 1..Len(log) :
                   log[l].op = "triage" /\ log[l].level = "error"})

\* C7: with a well-formed table, triage returns {status: S} for the first
\* clause, in declared order, whose trimmed value equals the trimmed value
\* of the triage field, whatever later clauses say; with no such clause it
\* returns {status: 'new'} and logs a configuration error.
C7_FirstMatchWins ==
    (TriageRan /\ TriageWellFormed) =>
      /\ result.exc = ""
      /\ DOMAIN result.value = {<<"status">>}
      /\ IF \E c \in 1..Len(TriageClauseTexts) : ClauseMatches(c)
         THEN /\ \E c \in 1..Len(TriageClauseTexts) :
                   /\ ClauseMatches(c)
                   /\ \A b \in 1..(c - 1) : ~ClauseMatches(b)
                   /\ result.value[<<"status">>]
                        = strip(ClauseSides(TriageClauseTexts[c])[2],
                                Whitespace)
              /\ TriageErrors = 0
         ELSE /\ result.value[<<"status">>] = New
              /\ TriageErrors = 1

\* "t -> nd, t -> nt" with the field holding " t": the first clause decides
C7_Witness ==
    /\ TriageRan
    /\ config.triage_split
         = <<" ", "t", " ", "-", ">", " ", "n", "d", " ", ",",
             " ", "t", " ", "-", ">", " ", "n", "t", " ">>
    /\ ticket.values[<<"type">>] = <<" ", "t">>
    /\ result.value = Dict1(<<"status">>, <<"n", "d">>)

\* C8 as stated: with a malformed table (a clause without '->' or with more
\* than one, or an empty table) triage logs an error and returns the
\* default status 'new'; the transition is not aborted.
C8_Original ==
    (TriageRan /\ ~TriageWellFormed) =>
      /\ result.exc = ""
      /\ pc # "failed"
      /\ result.value = Dict1(<<"status">>, New)
      /\ TriageErrors = 1

C10_Original ==
    (result.phase = "changes" /\ result.exc = "") =>
      DOMAIN result.value \subseteq TicketFields


\* the history of the primary ticket, oldest row first
PrimaryHistory == tickets[ticket.id].changelog

\* the rows of the history that record a change of field f
ChangesOf(f) == {i \in 1..Len(PrimaryHistory) : PrimaryHistory[i].field = f}

\* v is the old value of the most recent change of field f
IsPreviousValue(f, v) ==
    \E i \in ChangesOf(f) :
      /\ \A j \in ChangesOf(f) : j <= i
      /\ v = PrimaryHistory[i].oldvalue

\* C11: set_owner_to_previous returns {owner: v} with v the old value of the
\* most recent owner change of the ticket's history, and the ticket's
\* current owner when the history has no owner change;
\* set_status_to_previous returns {status: v} in the same way, and
\* {status: 'new'} when the history has no status change.
C11_PreviousValue ==
    /\ (result.op = "set_owner_to_previous" /\ pc = "apply") =>
         /\ result.exc = ""
         /\ DOMAIN result.value = {<<"owner">>}
         /\ IF ChangesOf(<<"owner">>) # {}
            THEN IsPreviousValue(<<"owner">>, result.value[<<"owner">>])
            ELSE result.value[<<"owner">>] = ticket.values[<<"owner">>]
    /\ (result.op = "set_status_to_previous" /\ pc = "apply") =>
         /\ result.exc = ""
         /\ DOMAIN result.value = {<<"status">>}
         /\ IF ChangesOf(<<"status">>) # {}
            THEN IsPreviousValue(<<"status">>, result.value[<<"status">>])
            ELSE result.value[<<"status">>] = New

\* two owner changes, from "o1" and later from "o2": the later one decides
C11_Witness ==
    /\ result.op = "set_owner_to_previous" /\ pc = "apply"
    /\ Len(PrimaryHistory) = 2
    /\ PrimaryHistory[1].field = <<"owner">>
    /\ PrimaryHistory[1].oldvalue = <<"o1">>
    /\ PrimaryHistory[2].field = <<"owner">>
    /\ PrimaryHistory[2].oldvalue = <<"o2">>
    /\ result.value = Dict1(<<"owner">>, <<"o2">>)


\* clear_fields get_ticket_changes has just run
FieldsClearRan ==
    /\ result.op = "clear_fields" /\ result.phase = "changes"
    /\ pc = "apply"

\* C12 as stated: with a list of N configured names, clear_fields returns a
\* change-set of exactly N entries, each a configured name mapped to the
\* empty string, also when the list names a field more than once.
C12_Original ==
    FieldsClearRan =>
      /\ result.exc = ""
      /\ Cardinality(DOMAIN result.value) = Len(config.clear_fields)
      /\ \A k \in DOMAIN result.value :
           /\ result.value[k] = <<>>
           /\ \E i \in 1..Len(config.clear_fields) : config.clear_fields[i] = k

\* C12 as amended: clear_fields returns a change-set with one entry for
\* every distinct configured name and no other entry (N entries when the N
\* names differ), each mapped to the empty string, whatever the fields held.
C12_OneEntryPerDistinctName ==
    FieldsClearRan =>
      /\ result.exc = ""
      /\ \A i \in 1..Len(config.clear_fields) :
           config.clear_fields[i] \in DOMAIN result.value
      /\ \A k \in DOMAIN result.value :
           /\ result.value[k] = <<>>
           /\ \E i \in 1..Len(config.clear_fields) : config.clear_fields[i] = k
      /\ Cardinality(DOMAIN result.value)
           = Cardinality({config.clear_fields[i] :
                            i \in 1..Len(config.clear_fields)})

\* 'qa, milestone' configured, both fields holding a value: two entries
C12_Witness ==
    /\ FieldsClearRan
    /\ config.clear_fields = <<<<"qa">>, <<"milestone">>>>
    /\ ticket.values[<<"qa">>] = <<"quinn">>
    /\ ticket.values[<<"milestone">>] = <<"m1">>
    /\ Cardinality(DOMAIN result.value) = 2


\* the milestone field is not empty, names a milestone, and it is completed
MilestoneIsCompleted ==
    /\ ticket.values[<<"milestone">>] # <<>>
    /\ \E m \in DOMAIN Milestones :
         m = ticket.values[<<"milestone">>] /\ Milestones[m] = TRUE

\* C13: reset_milestone gives the hint 'The milestone will be reset.' and
\* the change {milestone: ''} exactly when the milestone field is not empty,
\* names an existing milestone and that milestone is completed; otherwise
\* the hint and the change-set are empty; neither handler fails, and the
\* hint rendered for a ticket is non-empty exactly when the change-set
\* computed for it is.
C13_HintIffChange ==
    [][Computing("reset_milestone") =>
         /\ result'.op = "reset_milestone"
         /\ result'.exc = ""
         /\ pc' # "failed"
         /\ result'.phase = "render" =>
              result'.value.hint =
                (IF MilestoneIsCompleted
                 THEN <<"The milestone will be reset.">> ELSE <<>>)
         /\ result'.phase = "changes" =>
              result'.value =
                (IF MilestoneIsCompleted
                 THEN Dict1(<<"milestone">>, <<>>) ELSE EmptyChanges)
         /\ (result.phase = "render" /\ result'.phase = "changes") =>
              (result.value.hint # <<>> <=> result'.value # EmptyChanges)]_vars

\* the milestone "m9" does not exist: rendering and computing each logged a
\* warning, the change-set is empty and the request goes on
C13_Witness ==
    /\ result.op = "reset_milestone" /\ result.phase = "changes"
    /\ result.exc = "" /\ result.value = EmptyChanges
    /\ pc = "apply"
    /\ ticket.values[<<"milestone">>] = <<"m9">>
    /\ Len(log) = 2


\* the rows of a stored ticket's history written by the acting user
OwnRows(i) ==
    {r \in 1..Len(tickets[i].changelog) :
       tickets[i].changelog[r].author = authname}

\* C14: in a request run as compute-changes, save (only if the request is
\* not in preview mode by then), apply-side-effects: the xref input is never
\* rewritten on the way; whenever xref apply_action_side_effects runs, the
\* input it reads names an existing ticket, the handler does not fail on
\* the id, and the only ticket that gains a row is the one the input names;
\* once xref has rejected the input (a warning was added) the request is
\* never saved, no side effect runs and no stored ticket changes.
C14_SideEffectReadsValidatedId ==
    [][/\ req_args'.xref = req_args.xref
       /\ Applying("xref") =>
            /\ req_args.xref # None
            /\ XRefInputValid
            /\ ~req_args.preview
            /\ result'.exc \notin {"AttributeError", "ValueError",
                                   "ResourceNotFound"}
            /\ \A i \in TicketIds :
                 i # IntValue(XRefInput) => tickets'[i] = tickets[i]
       /\ warnings' # <<>> =>
            /\ req_args'.preview
            /\ pc' \notin {"save", "side_effects"}
            /\ effects' = <<>>
            /\ \A i \in TicketIds : OwnRows(i)' = {}]_vars

\* the input "02" was validated and, after the save of the primary ticket,
\* the side effect commented on ticket 2 and on no other ticket
C14_Witness ==
    /\ pc = "done"
    /\ config.operations = <<"xref">>
    /\ result.op = "xref" /\ result.phase = "side_effects" /\ result.exc = ""
    /\ req_args.xref = <<"0", "2">>
    /\ Len(effects) = 3
    /\ effects[2].kind = "save_changes" /\ effects[2].ticket = 2
    /\ Len(tickets[2].changelog) = 1
    /\ ~effects[3].failed

====
